---- MODULE Spec2Model ----
(***************************************************************************)
(* Model of convert.py: a plain-text quiz (P1., A) B) C) D), Correcta: X)  *)
(* is parsed into Question records and emitted as Moodle GIFT.             *)
(*                                                                         *)
(* Strings are sequences of tokens.  A token is an atomic chunk of text    *)
(* (a marker such as "::" or ")", one letter, one digit, one keyword, one  *)
(* piece of free text, or one whitespace character).  The input text is    *)
(* the sequence of its physical lines, each line a string.  The cursor i   *)
(* is 0-based as in the source, so the line under the cursor is            *)
(* lines[i + 1] and its 1-based line number is i + 1.                      *)
(***************************************************************************)
EXTENDS Integers, Sequences, FiniteSets, TLC

VARIABLES lines, frame, mainpc, gift, output, stdout, status

vars == <<lines, frame, mainpc, gift, output, stdout, status>>

----------------------------------------------------------------------------
(* Bounds of the model *)

\* longest input made of arbitrary lines of Alphabet
MaxLen == 5

\* most sample blocks concatenated into one input
MaxBlocks == 2

----------------------------------------------------------------------------
(* Characters and strings *)

\* what str.strip() / str.rstrip() remove and what \s matches
Whitespace == {" ", "\t", "\n"}

\* what \d matches
Digits == {"0", "1", "2", "3", "4", "5", "6", "7", "8", "9"}

\* [A-Da-d]
OptionLetters == {"A", "B", "C", "D", "a", "b", "c", "d"}

\* the check-mark glyph U+2705 of CORRECT_RE
CheckMark == "U+2705"

\* str.upper() on one token
UpperChar(c) ==
    CASE c = "a" -> "A" [] c = "b" -> "B" [] c = "c" -> "C" [] c = "d" -> "D"
      [] c = "p" -> "P"
      [] c = "correcta" -> "CORRECTA" [] c = "Correcta" -> "CORRECTA"
      [] c = "respuesta" -> "RESPUESTA" [] c = "Respuesta" -> "RESPUESTA"
      [] OTHER -> c

\* str.upper()
Upper(s) == [k \in 1..Len(s) |-> UpperChar(s[k])]

\* two tokens equal under re.IGNORECASE
SameFold(c, d) == UpperChar(c) = UpperChar(d)

\* the token at position k of s, "" past either end
At(s, k) == IF k \in 1..Len(s) THEN s[k] ELSE ""

RECURSIVE LStrip(_)
LStrip(s) == IF s # <<>> /\ Head(s) \in Whitespace THEN LStrip(Tail(s)) ELSE s

RECURSIVE RStrip(_)
RStrip(s) ==
    IF s # <<>> /\ s[Len(s)] \in Whitespace
    THEN RStrip(SubSeq(s, 1, Len(s) - 1))
    ELSE s

\* str.strip()
Strip(s) == LStrip(RStrip(s))

\* sep.join(parts)
RECURSIVE Join(_, _)
Join(sep, parts) ==
    IF parts = <<>> THEN <<>>
    ELSE IF Len(parts) = 1 THEN parts[1]
    ELSE parts[1] \o sep \o Join(sep, Tail(parts))

\* the first position >= k of s that holds no whitespace (\s* from k, greedy)
RECURSIVE SkipWs(_, _)
SkipWs(s, k) == IF At(s, k) \in Whitespace THEN SkipWs(s, k + 1) ELSE k

\* the first position >= k of s that holds no digit (\d* from k, greedy)
RECURSIVE SkipDigits(_, _)
SkipDigits(s, k) == IF At(s, k) \in Digits THEN SkipDigits(s, k + 1) ELSE k

----------------------------------------------------------------------------
(* The three patterns.  A match is a record of the captured groups with    *)
(* ok = TRUE; a group that did not take part (None) is the empty string.   *)
(* All three are applied to stripped lines only.                           *)

NoMatch == [ok |-> FALSE]

\* ^(::\s*(P\d+)\s*::|P(\d+)\.)\s*(.*)$ with re.IGNORECASE
QUESTION_START_RE(s) ==
    LET a  == SkipWs(s, 2)
        b  == SkipDigits(s, a + 1)
        c  == SkipWs(s, b)
        e  == SkipDigits(s, 2)
    IN  IF /\ At(s, 1) = "::"
           /\ SameFold(At(s, a), "P")
           /\ b > a + 1
           /\ At(s, c) = "::"
        THEN [ok |-> TRUE, g2 |-> SubSeq(s, a, b - 1), g3 |-> <<>>,
              g4 |-> SubSeq(s, SkipWs(s, c + 1), Len(s))]
        ELSE IF /\ SameFold(At(s, 1), "P")
                /\ e > 2
                /\ At(s, e) = "."
        THEN [ok |-> TRUE, g2 |-> <<>>, g3 |-> SubSeq(s, 2, e - 1),
              g4 |-> SubSeq(s, SkipWs(s, e + 1), Len(s))]
        ELSE NoMatch

\* ^([A-Da-d])\)\s*(.+?)\s*$
OPTION_RE(s) ==
    LET d == SkipWs(s, 3)
    IN  IF /\ At(s, 1) \in OptionLetters
           /\ At(s, 2) = ")"
           /\ d <= Len(s)
        THEN [ok |-> TRUE, g1 |-> At(s, 1),
              g2 |-> RStrip(SubSeq(s, d, Len(s)))]
        ELSE NoMatch

\* ^(?:U+2705\s*)?(?:Correcta|Respuesta\s+correcta)\s*:\s*([A-Da-d])\s*$
\* with re.IGNORECASE
CORRECT_RE(s) ==
    LET a == IF At(s, 1) = CheckMark THEN SkipWs(s, 2) ELSE 1
        r == SkipWs(s, a + 1)
        b == IF SameFold(At(s, a), "Correcta") THEN a + 1
             ELSE IF /\ SameFold(At(s, a), "Respuesta")
                     /\ r > a + 1
                     /\ SameFold(At(s, r), "correcta")
             THEN r + 1
             ELSE 0
        c == SkipWs(s, b)
        d == SkipWs(s, c + 1)
    IN  IF /\ b > 0
           /\ At(s, c) = ":"
           /\ At(s, d) \in OptionLetters
           /\ SkipWs(s, d + 1) > Len(s)
        THEN [ok |-> TRUE, g1 |-> At(s, d)]
        ELSE NoMatch

----------------------------------------------------------------------------
(* parse_questions *)

\* the dataclass
Question(name, prompt, options, correct_letter) ==
    [name |-> name, prompt |-> prompt, options |-> options,
     correct_letter |-> correct_letter]

NoError == [kind |-> "none"]

\* the locals of parse_questions on entry; pc is the position in the body
InitFrame ==
    [pc |-> "start", i |-> 0, questions |-> <<>>, name |-> <<>>,
     prompt_lines |-> <<>>, options |-> <<>>, correct_letter |-> <<>>,
     err |-> NoError]

\* raise ValueError(...): the fields are what the message is formatted from
Raise(fr, e) == [fr EXCEPT !.pc = "error", !.err = e]

RECURSIVE skip_blanks(_, _)
skip_blanks(ls, idx) ==
    IF idx < Len(ls) /\ Strip(ls[idx + 1]) = <<>>
    THEN skip_blanks(ls, idx + 1)
    ELSE idx

\* lines 32-41
StartStep(ls, fr) == [fr EXCEPT !.pc = "header", !.i = skip_blanks(ls, fr.i)]


\* HeaderStep reporting the 0-based index of the line
HeaderStepLineOff(ls, fr) ==
    IF ~(fr.i < Len(ls)) THEN [fr EXCEPT !.pc = "done"]
    ELSE
    LET m == QUESTION_START_RE(Strip(ls[fr.i + 1]))
        pnum == IF m.g2 # <<>> THEN m.g2
                ELSE IF m.g3 # <<>> THEN <<"P">> \o m.g3 ELSE <<>>
        first_prompt == Strip(m.g4)
    IN  IF ~m.ok
        THEN Raise(fr, [kind |-> "no_question_start", line |-> fr.i,
                        text |-> ls[fr.i + 1]])
        ELSE IF pnum = <<>>
        THEN Raise(fr, [kind |-> "no_question_number", line |-> fr.i,
                        text |-> ls[fr.i + 1]])
        ELSE [fr EXCEPT !.pc = "prompt",
                        !.name = Upper(pnum),
                        !.prompt_lines = IF first_prompt # <<>>
                                         THEN <<first_prompt>> ELSE <<>>,
                        !.i = fr.i + 1]

\* HeaderStep that keeps the header's own letter case in the name
HeaderStepNoUpper(ls, fr) ==
    IF ~(fr.i < Len(ls)) THEN [fr EXCEPT !.pc = "done"]
    ELSE
    LET m == QUESTION_START_RE(Strip(ls[fr.i + 1]))
        pnum == IF m.g2 # <<>> THEN m.g2
                ELSE IF m.g3 # <<>> THEN <<"P">> \o m.g3 ELSE <<>>
        first_prompt == Strip(m.g4)
    IN  IF ~m.ok
        THEN Raise(fr, [kind |-> "no_question_start", line |-> fr.i + 1,
                        text |-> ls[fr.i + 1]])
        ELSE IF pnum = <<>>
        THEN Raise(fr, [kind |-> "no_question_number", line |-> fr.i + 1,
                        text |-> ls[fr.i + 1]])
        ELSE [fr EXCEPT !.pc = "prompt",
                        !.name = pnum,
                        !.prompt_lines = IF first_prompt # <<>>
                                         THEN <<first_prompt>> ELSE <<>>,
                        !.i = fr.i + 1]

\* HeaderStep without the i += 1 of line 55
HeaderStepNoAdvance(ls, fr) ==
    IF ~(fr.i < Len(ls)) THEN [fr EXCEPT !.pc = "done"]
    ELSE
    LET m == QUESTION_START_RE(Strip(ls[fr.i + 1]))
        pnum == IF m.g2 # <<>> THEN m.g2
                ELSE IF m.g3 # <<>> THEN <<"P">> \o m.g3 ELSE <<>>
        first_prompt == Strip(m.g4)
    IN  IF ~m.ok
        THEN Raise(fr, [kind |-> "no_question_start", line |-> fr.i + 1,
                        text |-> ls[fr.i + 1]])
        ELSE IF pnum = <<>>
        THEN Raise(fr, [kind |-> "no_question_number", line |-> fr.i + 1,
                        text |-> ls[fr.i + 1]])
        ELSE [fr EXCEPT !.pc = "prompt",
                        !.name = Upper(pnum),
                        !.prompt_lines = IF first_prompt # <<>>
                                         THEN <<first_prompt>> ELSE <<>>]

\* lines 42-55 and the return of line 118
HeaderStep(ls, fr) ==
    IF ~(fr.i < Len(ls)) THEN [fr EXCEPT !.pc = "done"]
    ELSE
    LET m == QUESTION_START_RE(Strip(ls[fr.i + 1]))
        pnum == IF m.g2 # <<>> THEN m.g2
                ELSE IF m.g3 # <<>> THEN <<"P">> \o m.g3 ELSE <<>>
        first_prompt == Strip(m.g4)
    IN  IF ~m.ok
        THEN Raise(fr, [kind |-> "no_question_start", line |-> fr.i + 1,
                        text |-> ls[fr.i + 1]])
        ELSE IF pnum = <<>>
        THEN Raise(fr, [kind |-> "no_question_number", line |-> fr.i + 1,
                        text |-> ls[fr.i + 1]])
        ELSE [fr EXCEPT !.pc = "prompt",
                        !.name = Upper(pnum),
                        !.prompt_lines = IF first_prompt # <<>>
                                         THEN <<first_prompt>> ELSE <<>>,
                        !.i = fr.i + 1]


\* PromptStep citing the line before the new header
PromptStepLineOff(ls, fr) ==
    IF ~(fr.i < Len(ls)) THEN [fr EXCEPT !.pc = "prompt_end"]
    ELSE
    LET ln == Strip(ls[fr.i + 1])
    IN  IF ln = <<>> THEN [fr EXCEPT !.i = fr.i + 1]
        ELSE IF OPTION_RE(ln).ok THEN [fr EXCEPT !.pc = "prompt_end"]
        ELSE IF QUESTION_START_RE(ln).ok
        THEN Raise(fr, [kind |-> "missing_options", name |-> fr.name,
                        line |-> fr.i])
        ELSE [fr EXCEPT !.prompt_lines = Append(fr.prompt_lines, ln),
                        !.i = fr.i + 1]

\* PromptStep that passes over a marker-like line instead of taking it as
\* prompt text
PromptStepSkipsMarker(ls, fr) ==
    IF ~(fr.i < Len(ls)) THEN [fr EXCEPT !.pc = "prompt_end"]
    ELSE
    LET ln == Strip(ls[fr.i + 1])
    IN  IF ln = <<>> THEN [fr EXCEPT !.i = fr.i + 1]
        ELSE IF OPTION_RE(ln).ok THEN [fr EXCEPT !.pc = "prompt_end"]
        ELSE IF QUESTION_START_RE(ln).ok
        THEN Raise(fr, [kind |-> "missing_options", name |-> fr.name,
                        line |-> fr.i + 1])
        ELSE IF CORRECT_RE(ln).ok THEN [fr EXCEPT !.i = fr.i + 1]
        ELSE [fr EXCEPT !.prompt_lines = Append(fr.prompt_lines, ln),
                        !.i = fr.i + 1]

\* lines 58-68, one iteration
PromptStep(ls, fr) ==
    IF ~(fr.i < Len(ls)) THEN [fr EXCEPT !.pc = "prompt_end"]
    ELSE
    LET ln == Strip(ls[fr.i + 1])
    IN  IF ln = <<>> THEN [fr EXCEPT !.i = fr.i + 1]
        ELSE IF OPTION_RE(ln).ok THEN [fr EXCEPT !.pc = "prompt_end"]
        ELSE IF QUESTION_START_RE(ln).ok
        THEN Raise(fr, [kind |-> "missing_options", name |-> fr.name,
                        line |-> fr.i + 1])
        ELSE [fr EXCEPT !.prompt_lines = Append(fr.prompt_lines, ln),
                        !.i = fr.i + 1]

\* lines 70-74
PromptEndStep(ls, fr) ==
    IF fr.prompt_lines = <<>>
    THEN Raise(fr, [kind |-> "empty_prompt", name |-> fr.name])
    ELSE [fr EXCEPT !.pc = "options", !.options = <<>>]


\* OptionsStep in which a blank line ends the options
OptionsStepBlankEnds(ls, fr) ==
    IF ~(fr.i < Len(ls)) THEN [fr EXCEPT !.pc = "options_end"]
    ELSE
    LET ln == Strip(ls[fr.i + 1])
        om == OPTION_RE(ln)
    IN  IF ~om.ok THEN [fr EXCEPT !.pc = "options_end"]
        ELSE [fr EXCEPT !.options =
                            Append(fr.options,
                                   <<UpperChar(om.g1), Strip(om.g2)>>),
                        !.i = fr.i + 1]

\* OptionsStep that consumes the line that ends the options
OptionsStepConsumesEnd(ls, fr) ==
    IF ~(fr.i < Len(ls)) THEN [fr EXCEPT !.pc = "options_end"]
    ELSE
    LET ln == Strip(ls[fr.i + 1])
        om == OPTION_RE(ln)
    IN  IF ln = <<>> THEN [fr EXCEPT !.i = fr.i + 1]
        ELSE IF ~om.ok THEN [fr EXCEPT !.pc = "options_end", !.i = fr.i + 1]
        ELSE [fr EXCEPT !.options =
                            Append(fr.options,
                                   <<UpperChar(om.g1), Strip(om.g2)>>),
                        !.i = fr.i + 1]

\* lines 75-86, one iteration
OptionsStep(ls, fr) ==
    IF ~(fr.i < Len(ls)) THEN [fr EXCEPT !.pc = "options_end"]
    ELSE
    LET ln == Strip(ls[fr.i + 1])
        om == OPTION_RE(ln)
    IN  IF ln = <<>> THEN [fr EXCEPT !.i = fr.i + 1]
        ELSE IF ~om.ok THEN [fr EXCEPT !.pc = "options_end"]
        ELSE [fr EXCEPT !.options =
                            Append(fr.options,
                                   <<UpperChar(om.g1), Strip(om.g2)>>),
                        !.i = fr.i + 1]


\* OptionsEndStep accepting a single option
OptionsEndStepOne(ls, fr) ==
    IF Len(fr.options) < 1
    THEN Raise(fr, [kind |-> "too_few_options", name |-> fr.name,
                    found |-> Len(fr.options)])
    ELSE [fr EXCEPT !.pc = "correct", !.correct_letter = <<>>]

\* lines 88-92
OptionsEndStep(ls, fr) ==
    IF Len(fr.options) < 2
    THEN Raise(fr, [kind |-> "too_few_options", name |-> fr.name,
                    found |-> Len(fr.options)])
    ELSE [fr EXCEPT !.pc = "correct", !.correct_letter = <<>>]


\* CorrectStep that skips a header line like any other line
CorrectStepPastHeader(ls, fr) ==
    IF ~(fr.i < Len(ls)) THEN [fr EXCEPT !.pc = "correct_end"]
    ELSE
    LET ln == Strip(ls[fr.i + 1])
        cm == CORRECT_RE(ln)
    IN  IF ln = <<>> THEN [fr EXCEPT !.i = fr.i + 1]
        ELSE IF cm.ok
        THEN [fr EXCEPT !.correct_letter = <<UpperChar(cm.g1)>>,
                        !.i = fr.i + 1,
                        !.pc = "correct_end"]
        ELSE [fr EXCEPT !.i = fr.i + 1]

\* CorrectStep that consumes the header line at which it stops
CorrectStepEatsHeader(ls, fr) ==
    IF ~(fr.i < Len(ls)) THEN [fr EXCEPT !.pc = "correct_end"]
    ELSE
    LET ln == Strip(ls[fr.i + 1])
        cm == CORRECT_RE(ln)
    IN  IF ln = <<>> THEN [fr EXCEPT !.i = fr.i + 1]
        ELSE IF QUESTION_START_RE(ln).ok
        THEN [fr EXCEPT !.i = fr.i + 1, !.pc = "correct_end"]
        ELSE IF cm.ok
        THEN [fr EXCEPT !.correct_letter = <<UpperChar(cm.g1)>>,
                        !.i = fr.i + 1,
                        !.pc = "correct_end"]
        ELSE [fr EXCEPT !.i = fr.i + 1]

\* CorrectStep that rejects a line it does not recognise
CorrectStepStrict(ls, fr) ==
    IF ~(fr.i < Len(ls)) THEN [fr EXCEPT !.pc = "correct_end"]
    ELSE
    LET ln == Strip(ls[fr.i + 1])
        cm == CORRECT_RE(ln)
    IN  IF ln = <<>> THEN [fr EXCEPT !.i = fr.i + 1]
        ELSE IF QUESTION_START_RE(ln).ok THEN [fr EXCEPT !.pc = "correct_end"]
        ELSE IF cm.ok
        THEN [fr EXCEPT !.correct_letter = <<UpperChar(cm.g1)>>,
                        !.i = fr.i + 1,
                        !.pc = "correct_end"]
        ELSE Raise(fr, [kind |-> "no_correct_line", name |-> fr.name])

\* lines 93-105, one iteration
CorrectStep(ls, fr) ==
    IF ~(fr.i < Len(ls)) THEN [fr EXCEPT !.pc = "correct_end"]
    ELSE
    LET ln == Strip(ls[fr.i + 1])
        cm == CORRECT_RE(ln)
    IN  IF ln = <<>> THEN [fr EXCEPT !.i = fr.i + 1]
        ELSE IF QUESTION_START_RE(ln).ok THEN [fr EXCEPT !.pc = "correct_end"]
        ELSE IF cm.ok
        THEN [fr EXCEPT !.correct_letter = <<UpperChar(cm.g1)>>,
                        !.i = fr.i + 1,
                        !.pc = "correct_end"]
        ELSE [fr EXCEPT !.i = fr.i + 1]

\* letters = [l for (l, _) in options]
Letters(options) == [k \in 1..Len(options) |-> options[k][1]]

\* x in seq
In(x, seq) == \E k \in 1..Len(seq) : seq[k] = x


\* CorrectEndStep without the cross-check of lines 110-112
CorrectEndStepUnchecked(ls, fr) ==
    IF fr.correct_letter = <<>>
    THEN Raise(fr, [kind |-> "no_correct_line", name |-> fr.name])
    ELSE [fr EXCEPT !.questions =
                        Append(fr.questions,
                               Question(fr.name,
                                        Strip(Join(<<" ">>, fr.prompt_lines)),
                                        fr.options, fr.correct_letter[1])),
                    !.i = skip_blanks(ls, fr.i),
                    !.pc = "header"]

\* CorrectEndStep without the skip_blanks of line 116
CorrectEndStepNoSkip(ls, fr) ==
    LET letters == Letters(fr.options)
        prompt == Strip(Join(<<" ">>, fr.prompt_lines))
    IN  IF fr.correct_letter = <<>>
        THEN Raise(fr, [kind |-> "no_correct_line", name |-> fr.name])
        ELSE IF ~In(fr.correct_letter[1], letters)
        THEN Raise(fr, [kind |-> "correct_not_in_options", name |-> fr.name,
                        correct_letter |-> fr.correct_letter[1],
                        letters |-> letters])
        ELSE [fr EXCEPT !.questions =
                            Append(fr.questions,
                                   Question(fr.name, prompt, fr.options,
                                            fr.correct_letter[1])),
                        !.pc = "header"]

\* lines 107-116
CorrectEndStep(ls, fr) ==
    LET letters == Letters(fr.options)
        prompt == Strip(Join(<<" ">>, fr.prompt_lines))
    IN  IF fr.correct_letter = <<>>
        THEN Raise(fr, [kind |-> "no_correct_line", name |-> fr.name])
        ELSE IF ~In(fr.correct_letter[1], letters)
        THEN Raise(fr, [kind |-> "correct_not_in_options", name |-> fr.name,
                        correct_letter |-> fr.correct_letter[1],
                        letters |-> letters])
        ELSE [fr EXCEPT !.questions =
                            Append(fr.questions,
                                   Question(fr.name, prompt, fr.options,
                                            fr.correct_letter[1])),
                        !.i = skip_blanks(ls, fr.i),
                        !.pc = "header"]

Final == {"done", "error"}

\* one step of the body of parse_questions from position fr.pc
Step(ls, fr) ==
    CASE fr.pc = "start" -> StartStep(ls, fr)
      [] fr.pc = "header" -> HeaderStep(ls, fr)
      [] fr.pc = "prompt" -> PromptStep(ls, fr)
      [] fr.pc = "prompt_end" -> PromptEndStep(ls, fr)
      [] fr.pc = "options" -> OptionsStep(ls, fr)
      [] fr.pc = "options_end" -> OptionsEndStep(ls, fr)
      [] fr.pc = "correct" -> CorrectStep(ls, fr)
      [] fr.pc = "correct_end" -> CorrectEndStep(ls, fr)
      [] OTHER -> fr

\* the whole call: the frame in which parse_questions returns or raises
RECURSIVE Run(_, _)
Run(ls, fr) == IF fr.pc \in Final THEN fr ELSE Run(ls, Step(ls, fr))

parse_questions(ls) == Run(ls, InitFrame)

----------------------------------------------------------------------------
(* to_gift *)


\* OptionLines with the two prefixes exchanged
OptionLinesSwapped(q) ==
    [k \in 1..Len(q.options) |->
        <<IF q.options[k][1] = q.correct_letter THEN "~" ELSE "=">>
            \o q.options[k][2]]

\* lines 127-129
OptionLines(q) ==
    [k \in 1..Len(q.options) |->
        <<IF q.options[k][1] = q.correct_letter THEN "=" ELSE "~">>
            \o q.options[k][2]]

\* lines 124-131
Block(q) ==
    << <<"::">> \o q.name \o <<"::">>, q.prompt, <<"{">> >>
        \o OptionLines(q) \o << <<"}">>, <<>> >>

\* lines 122-131
RECURSIVE OutLines(_)
OutLines(questions) ==
    IF questions = <<>> THEN <<>>
    ELSE Block(Head(questions)) \o OutLines(Tail(questions))

\* to_gift without the rstrip() of line 132
to_gift_unstripped(questions) ==
    Join(<<"\n">>, OutLines(questions)) \o <<"\n">>

\* line 132
to_gift(questions) == RStrip(Join(<<"\n">>, OutLines(questions))) \o <<"\n">>

----------------------------------------------------------------------------
(* Inputs *)

Blank == <<" ">>
HdrColon == <<"::", "p", "1", "::">>
HdrDot == <<"P", "2", ".", " ", "q">>
OptA == <<"A", ")", " ", "x">>
OptB == <<"b", ")", "y">>
CorA == <<"correcta", ":", "a">>
Other == <<"t">>

Alphabet == {Blank, HdrColon, HdrDot, OptA, OptB, CorA, Other}

FreeInputs == UNION {[1..n -> Alphabet] : n \in 0..MaxLen}

\* the example of the emitter: P1, "What is 2+2?", A) 3, B) 4, C) 5, B
BlockP1 ==
    << <<"P", "1", ".", " ", "What is 2+2?">>,
       <<"A", ")", " ", "3">>, <<"B", ")", " ", "4">>, <<"C", ")", " ", "5">>,
       <<"Correcta", ":", " ", "B">> >>

\* blank lines everywhere, a prompt of several lines, a skipped line before
\* the answer, the long marker with the check mark, trailing blank lines
BlockLoose ==
    << <<>>, <<" ", "::", " ", "P", "7", " ", "::", " ">>, <<>>, <<"q">>,
       <<"\t">>, <<"r", " ", "s">>, <<"a", ")", "x", " ">>, <<>>,
       <<"d", ")", " ", "y", " ", "z">>, <<>>, <<"t">>,
       <<CheckMark, " ", "Respuesta", " ", "correcta", " ", ":", "d", " ">>,
       <<>>, <<" ">> >>

\* the same letter on two options
BlockDup ==
    << <<"p", "1", "2", ".", "q">>, <<"C", ")", "x">>, <<"c", ")", "y">>,
       <<"A", ")", "z">>, <<"CORRECTA", ":", "C">> >>

\* an option-like line after a line that ended the options
BlockStray ==
    << <<"P", "5", ".", " ", "q">>, <<"A", ")", "x">>, <<"B", ")", "y">>,
       <<"t">>, <<"C", ")", "z">>, <<"Correcta", ":", "B">> >>

\* five option lines, an answer-like line in the prompt
BlockFive ==
    << <<"::", "p", "6", "::", "q">>, <<"Correcta", ":", "A">>,
       <<"A", ")", "x">>, <<"B", ")", "y">>, <<"C", ")", "z">>,
       <<"D", ")", "w">>, <<"A", ")", "v">>, <<"Correcta", ":", "D">> >>

\* a second answer marker after the block's own, a blank line between them
BlockTwoMarkers ==
    << <<"P", "8", ".", " ", "q">>, <<"A", ")", "x">>, <<"B", ")", "y">>,
       <<"Correcta", ":", "A">>, <<>>,
       <<"Respuesta", " ", "correcta", ":", " ", "B">> >>

\* options without an answer marker
BlockNoAnswer ==
    << <<"::", "P", "3", "::">>, <<"q">>, <<"A", ")", "x">>,
       <<"B", ")", "y">>, <<"t">> >>

SampleBlocks ==
    {BlockP1, BlockLoose, BlockDup, BlockNoAnswer, BlockStray, BlockFive,
     BlockTwoMarkers}

RECURSIVE Flatten(_)
Flatten(blocks) ==
    IF blocks = <<>> THEN <<>> ELSE Head(blocks) \o Flatten(Tail(blocks))

SampleInputs ==
    UNION {{Flatten(d) : d \in [1..n -> SampleBlocks]} : n \in 1..MaxBlocks}

Inputs == FreeInputs \cup SampleInputs

----------------------------------------------------------------------------
(* main *)

NotWritten == <<"(no file)">>
Nothing == [count |-> -1]

Init ==
    /\ lines \in Inputs
    /\ frame = InitFrame
    /\ mainpc = "parse"
    /\ gift = <<>>
    /\ output = NotWritten
    /\ stdout = Nothing
    /\ status = -1

\* the frame of the call of line 142 is left alone by the rest of main
CallerUnchanged == UNCHANGED <<lines, mainpc, gift, output, stdout, status>>

\* lines 32-41
Start ==
    /\ mainpc = "parse"
    /\ frame.pc = "start"
    /\ frame' = StartStep(lines, frame)
    /\ CallerUnchanged

\* lines 42-55, or the return of line 118
Header ==
    /\ mainpc = "parse"
    /\ frame.pc = "header"
    /\ frame' = HeaderStep(lines, frame)
    /\ CallerUnchanged

\* one iteration of the loop of lines 58-68
Prompt ==
    /\ mainpc = "parse"
    /\ frame.pc = "prompt"
    /\ frame' = PromptStep(lines, frame)
    /\ CallerUnchanged

\* lines 70-74
PromptEnd ==
    /\ mainpc = "parse"
    /\ frame.pc = "prompt_end"
    /\ frame' = PromptEndStep(lines, frame)
    /\ CallerUnchanged

\* one iteration of the loop of lines 75-86
Options ==
    /\ mainpc = "parse"
    /\ frame.pc = "options"
    /\ frame' = OptionsStep(lines, frame)
    /\ CallerUnchanged

\* lines 88-92
OptionsEnd ==
    /\ mainpc = "parse"
    /\ frame.pc = "options_end"
    /\ frame' = OptionsEndStep(lines, frame)
    /\ CallerUnchanged

\* one iteration of the loop of lines 93-105
Correct ==
    /\ mainpc = "parse"
    /\ frame.pc = "correct"
    /\ frame' = CorrectStep(lines, frame)
    /\ CallerUnchanged

\* lines 107-116
CorrectEnd ==
    /\ mainpc = "parse"
    /\ frame.pc = "correct_end"
    /\ frame' = CorrectEndStep(lines, frame)
    /\ CallerUnchanged

\* line 142 returns, line 143
Emit ==
    /\ mainpc = "parse"
    /\ frame.pc = "done"
    /\ gift' = to_gift(frame.questions)
    /\ mainpc' = "write"
    /\ UNCHANGED <<lines, frame, output, stdout, status>>

\* line 144
WriteOutput ==
    /\ mainpc = "write"
    /\ output' = gift
    /\ mainpc' = "print"
    /\ UNCHANGED <<lines, frame, gift, stdout, status>>

\* lines 146-147 and 151
PrintSummary ==
    /\ mainpc = "print"
    /\ stdout' = [count |-> Len(frame.questions)]
    /\ status' = 0
    /\ mainpc' = "exit"
    /\ UNCHANGED <<lines, frame, gift, output>>


\* Abort when the output file was opened for writing before the parse
AbortLeavingFile ==
    /\ mainpc = "parse"
    /\ frame.pc = "error"
    /\ status' = 1
    /\ output' = <<>>
    /\ mainpc' = "exit"
    /\ UNCHANGED <<lines, frame, gift, stdout>>

\* line 142 raises: the ValueError leaves main uncaught and the interpreter
\* exits with status 1
Abort ==
    /\ mainpc = "parse"
    /\ frame.pc = "error"
    /\ status' = 1
    /\ mainpc' = "exit"
    /\ UNCHANGED <<lines, frame, gift, output, stdout>>

Next ==
    \/ Start
    \/ Header
    \/ Prompt
    \/ PromptEnd
    \/ Options
    \/ OptionsEnd
    \/ Correct
    \/ CorrectEnd
    \/ Emit
    \/ WriteOutput
    \/ PrintSummary
    \/ Abort

Spec == Init /\ [][Next]_vars

----------------------------------------------------------------------------
(* Properties *)

Returned == frame.pc = "done"
Raised == frame.pc = "error"
Emitted == mainpc \in {"write", "print", "exit"} /\ Returned

IsBlank(l) == Strip(l) = <<>>
IsHeader(l) == QUESTION_START_RE(Strip(l)).ok
IsOption(l) == OPTION_RE(Strip(l)).ok

\* C1: every Question of the list has a correct_letter that is the letter
\* of one of its own options, and when the scan for the answer ends with a
\* captured letter that no collected option carries, the next step raises
\* instead of appending the Question.
LetterInvariant ==
    /\ \A k \in 1..Len(frame.questions) :
          \E o \in 1..Len(frame.questions[k].options) :
              frame.questions[k].options[o][1]
                  = frame.questions[k].correct_letter
    /\ ( /\ frame.pc = "correct_end"
         /\ frame.correct_letter # <<>>
         /\ \A o \in 1..Len(frame.options) :
                frame.options[o][1] # frame.correct_letter[1] )
       => /\ Step(lines, frame).pc = "error"
          /\ Step(lines, frame).err.kind = "correct_not_in_options"

\* a list of two Questions is returned, the second answered by an option
\* that is not its first
LetterWitness ==
    /\ Returned
    /\ Len(frame.questions) = 2
    /\ frame.questions[2].options[1][1] # frame.questions[2].correct_letter

\* the 1-based numbers of the header lines of ls, in source order
HeaderIdx(ls) ==
    SelectSeq([k \in 1..Len(ls) |-> k], LAMBDA k : IsHeader(ls[k]))

\* P<digits> of a header line
CanonicalName(l) ==
    LET m == QUESTION_START_RE(Strip(l))
    IN  <<"P">> \o (IF m.g2 # <<>> THEN Tail(m.g2) ELSE m.g3)

\* C2: on a successful return there are as many Questions as header lines
\* in the input, and the k-th Question is named after the k-th header line.
RoundTripCount ==
    Returned =>
        /\ Len(frame.questions) = Len(HeaderIdx(lines))
        /\ \A k \in 1..Len(frame.questions) :
              frame.questions[k].name
                  = CanonicalName(lines[HeaderIdx(lines)[k]])

\* two blocks with different headers were parsed
RoundTripWitness ==
    /\ Returned
    /\ Len(frame.questions) = 2
    /\ frame.questions[1].name # frame.questions[2].name

\* text.split("\n")
RECURSIVE Split(_)
Split(t) ==
    IF \A k \in 1..Len(t) : t[k] # "\n" THEN <<t>>
    ELSE LET k == CHOOSE j \in 1..Len(t) :
                      t[j] = "\n" /\ \A h \in 1..(j - 1) : t[h] # "\n"
         IN  <<SubSeq(t, 1, k - 1)>> \o Split(SubSeq(t, k + 1, Len(t)))

\* the line of the output at which the block of the k-th Question starts
RECURSIVE BlockStart(_, _)
BlockStart(qs, k) ==
    IF k = 1 THEN 1
    ELSE BlockStart(qs, k - 1) + Len(qs[k - 1].options) + 5

\* the option lines of the k-th block of the output that start with c
MarkedLines(k, c) ==
    LET s == BlockStart(frame.questions, k)
    IN  {m \in 1..Len(frame.questions[k].options) :
            Head(Split(gift)[s + 2 + m]) = c}

\* C3: in the emitted text every block has exactly one option line
\* prefixed "=" and all its other option lines are prefixed "~".
ExactlyOneCorrectLine ==
    Emitted =>
        \A k \in 1..Len(frame.questions) :
            /\ Cardinality(MarkedLines(k, "=")) = 1
            /\ Cardinality(MarkedLines(k, "~"))
                   = Len(frame.questions[k].options) - 1

LineKinds == {"no_question_start", "missing_options"}
NameKinds == {"empty_prompt", "too_few_options", "no_correct_line",
              "correct_not_in_options"}

\* C4 as stated: every error raised carries a 1-based line number.
EveryErrorCarriesLine ==
    Raised => /\ "line" \in DOMAIN frame.err
              /\ frame.err.line \in 1..Len(lines)

\* C4: an error is one of the six kinds; the missing-header and the
\* missing-options errors carry the 1-based number of the line under the
\* cursor, the other four carry the question's name and no line number.
ErrorLineNumbers ==
    Raised =>
        /\ frame.err.kind \in LineKinds \cup NameKinds
        /\ frame.err.kind \in LineKinds =>
              /\ "line" \in DOMAIN frame.err
              /\ frame.err.line = frame.i + 1
              /\ frame.err.line \in 1..Len(lines)
              /\ ~IsBlank(lines[frame.err.line])
              /\ frame.err.kind = "no_question_start"
                     <=> ~IsHeader(lines[frame.err.line])
        /\ frame.err.kind \in NameKinds =>
              /\ "line" \notin DOMAIN frame.err
              /\ frame.err.name = frame.name
              /\ frame.name # <<>>

\* an error without a line number is raised in the second block
ErrorLineWitness ==
    /\ Raised
    /\ frame.err.kind = "no_correct_line"
    /\ "line" \notin DOMAIN frame.err
    /\ Len(frame.questions) = 1

\* C5: every Question has at least 2 options; a block whose options phase
\* ends with 0 or 1 options raises the too-few-options error whatever
\* follows, and the answer phase is entered with at least 2 options only.
MinimumOptions ==
    /\ \A k \in 1..Len(frame.questions) :
          Len(frame.questions[k].options) >= 2
    /\ (frame.pc = "options_end" /\ Len(frame.options) < 2) =>
          /\ Step(lines, frame).pc = "error"
          /\ Step(lines, frame).err.kind = "too_few_options"
          /\ Step(lines, frame).err.found = Len(frame.options)
    /\ frame.pc \in {"correct", "correct_end"} => Len(frame.options) >= 2
    /\ (Raised /\ frame.err.kind = "too_few_options") =>
          /\ frame.err.found = Len(frame.options)
          /\ frame.err.found < 2

\* a block with a single option is rejected although lines follow it
MinimumOptionsWitness ==
    /\ Raised
    /\ frame.err.kind = "too_few_options"
    /\ frame.err.found = 1
    /\ frame.i < Len(lines)

\* C6: when the prompt phase meets a header line the next step raises the
\* missing-options error citing that line's 1-based number; the cited line
\* is a header line and no option line lies between the question's own
\* header and it.
DanglingHeader ==
    /\ ( /\ frame.pc = "prompt"
         /\ frame.i < Len(lines)
         /\ IsHeader(lines[frame.i + 1]) )
       => /\ Step(lines, frame).pc = "error"
          /\ Step(lines, frame).err.kind = "missing_options"
          /\ Step(lines, frame).err.line = frame.i + 1
    /\ (Raised /\ frame.err.kind = "missing_options") =>
          /\ frame.err.line \in 2..Len(lines)
          /\ IsHeader(lines[frame.err.line])
          /\ \E h \in 1..(frame.err.line - 1) :
                /\ IsHeader(lines[h])
                /\ CanonicalName(lines[h]) = frame.err.name
                /\ \A j \in (h + 1)..(frame.err.line - 1) :
                      ~IsOption(lines[j]) /\ ~IsHeader(lines[j])

\* the second header comes after prompt text and a blank line
DanglingHeaderWitness ==
    /\ Raised
    /\ frame.err.kind = "missing_options"
    /\ frame.err.line >= 4
    /\ frame.prompt_lines # <<>>

\* C7: the output file is written only once parsing has returned and the
\* text has been emitted, and it holds the text of the whole list; after a
\* parse error nothing is written and no summary is printed, and the exit
\* status is not 0; a printed summary reports the number of Questions.
AbortOnError ==
    /\ output # NotWritten =>
          /\ Returned
          /\ mainpc \in {"print", "exit"}
          /\ output = gift
          /\ Len(Split(output))
                 = IF frame.questions = <<>> THEN 2
                   ELSE BlockStart(frame.questions,
                                   Len(frame.questions) + 1) - 1
    /\ Raised => output = NotWritten /\ stdout = Nothing /\ status # 0
    /\ stdout # Nothing =>
          /\ Returned
          /\ output # NotWritten
          /\ stdout.count = Len(frame.questions)
          /\ status = 0
    /\ mainpc = "exit" => (status = 0 <=> Returned) /\ (status = 1 <=> Raised)
    /\ (mainpc = "exit" /\ Returned) => stdout # Nothing

\* the second block fails after the first was parsed, and main has ended
AbortWitness ==
    /\ mainpc = "exit"
    /\ Raised
    /\ Len(frame.questions) = 1

NonBlank(ls) == SelectSeq(ls, LAMBDA l : ~IsBlank(l))

\* what a call of parse_questions ends in
Outcome(fr) ==
    [pc |-> fr.pc,
     questions |-> IF fr.pc = "done" THEN fr.questions ELSE <<>>,
     kind |-> fr.err.kind]

\* C8: the call ends as it does on the input with all blank lines
\* removed: the same list of Questions, or the same kind of error.
BlankInsensitive ==
    frame.pc \in Final =>
        Outcome(frame) = Outcome(parse_questions(NonBlank(lines)))

\* an accepted input with a blank line between two of its non-blank lines
BlankWitness ==
    /\ Returned
    /\ frame.questions # <<>>
    /\ \E k \in 2..(Len(lines) - 1) :
          /\ IsBlank(lines[k])
          /\ ~IsBlank(lines[k - 1])
          /\ ~IsBlank(lines[k + 1])

\* the P1 example
QuestionP1 ==
    Question(<<"P", "1">>, <<"What is 2+2?">>,
             << <<"A", <<"3">> >>, <<"B", <<"4">> >>, <<"C", <<"5">> >> >>,
             "B")

EmittedP1 ==
    << <<"::", "P", "1", "::">>, <<"What is 2+2?">>, <<"{">>,
       <<"~", "3">>, <<"=", "4">>, <<"~", "5">>, <<"}">> >>

\* C9: the output is, block after block in input order, the lines
\* ::name::, the prompt, {, one line per option in collection order
\* (prefixed = when its letter is the correct letter, else ~), } and a
\* blank line; k options give k + 4 non-blank lines; the P1 example gives
\* exactly its seven lines.
EmissionExact ==
    Emitted =>
        LET qs == frame.questions
            L == Split(gift)
        IN  /\ \A k \in 1..Len(qs) :
                  LET s == BlockStart(qs, k)
                      n == Len(qs[k].options)
                  IN  /\ s + n + 4 <= Len(L)
                      /\ L[s] = <<"::">> \o qs[k].name \o <<"::">>
                      /\ L[s + 1] = qs[k].prompt
                      /\ qs[k].prompt # <<>>
                      /\ L[s + 2] = <<"{">>
                      /\ \A m \in 1..n :
                            /\ Tail(L[s + 2 + m]) = qs[k].options[m][2]
                            /\ Head(L[s + 2 + m])
                                   = IF qs[k].options[m][1]
                                          = qs[k].correct_letter
                                     THEN "=" ELSE "~"
                      /\ L[s + 3 + n] = <<"}">>
                      /\ L[s + 4 + n] = <<>>
                      /\ Cardinality({j \in s..(s + 4 + n) : L[j] # <<>>})
                             = n + 4
                      /\ qs[k] = QuestionP1 => SubSeq(L, s, s + 6) = EmittedP1
            /\ qs # <<>> => Len(L) = BlockStart(qs, Len(qs) + 1) - 1

\* the P1 example is emitted as the second block
EmissionWitness ==
    /\ Emitted
    /\ Len(frame.questions) = 2
    /\ frame.questions[2] = QuestionP1
    /\ frame.questions[1] # QuestionP1

\* C10: the output ends with exactly one line break, which follows the
\* closing } of the last block (or is the whole output for the empty
\* list), and a blank line separates consecutive blocks.
TrailingNewline ==
    Emitted =>
        LET qs == frame.questions
            n == Len(gift)
        IN  /\ n >= 1
            /\ gift[n] = "\n"
            /\ n > 1 => gift[n - 1] \notin Whitespace
            /\ qs = <<>> <=> n = 1
            /\ qs # <<>> => gift[n - 1] = "}"
            /\ \A k \in 2..Len(qs) :
                  LET s == BlockStart(qs, k)
                  IN  /\ Split(gift)[s - 2] = <<"}">>
                      /\ Split(gift)[s - 1] = <<>>
                      /\ Head(Split(gift)[s]) = "::"

\* two blocks are emitted from an input that ends in blank lines
TrailingWitness ==
    /\ Emitted
    /\ Len(frame.questions) = 2
    /\ IsBlank(lines[Len(lines)])
    /\ IsBlank(lines[Len(lines) - 1])

\* parse_questions has returned or raised and main has not moved on yet
JustEnded == mainpc = "parse" /\ frame.pc \in Final

\* the header line l spelled P<digits>. in upper case, its trailing text kept
Respell(l) ==
    LET m == QUESTION_START_RE(Strip(l))
        digits == IF m.g2 # <<>> THEN Tail(m.g2) ELSE m.g3
    IN  IF ~m.ok THEN l
        ELSE <<"P">> \o digits \o <<".">>
                 \o (IF m.g4 = <<>> THEN <<>> ELSE <<" ">> \o m.g4)

\* the header line l spelled ::p<digits>:: in lower case
RespellColon(l) ==
    LET m == QUESTION_START_RE(Strip(l))
        digits == IF m.g2 # <<>> THEN Tail(m.g2) ELSE m.g3
    IN  IF ~m.ok THEN l
        ELSE <<"::", " ", "p">> \o digits \o <<"::">> \o m.g4

\* C11: the call ends as it does on the input whose headers are all
\* respelled P<n>. and as on the input whose headers are all respelled
\* ::p<n>:: (same Question list, or same kind of error), and every Question
\* is named P followed by the digits of its header.
HeaderEquivalence ==
    JustEnded =>
        /\ Outcome(frame)
               = Outcome(parse_questions([k \in 1..Len(lines) |->
                                              Respell(lines[k])]))
        /\ Outcome(frame)
               = Outcome(parse_questions([k \in 1..Len(lines) |->
                                              RespellColon(lines[k])]))
        /\ \A k \in 1..Len(frame.questions) :
              /\ Head(frame.questions[k].name) = "P"
              /\ Len(frame.questions[k].name) >= 2
              /\ \A d \in 2..Len(frame.questions[k].name) :
                    frame.questions[k].name[d] \in Digits

\* an accepted input with a lower-case :: header and a P<n>. header
HeaderEquivalenceWitness ==
    /\ Returned
    /\ Len(frame.questions) = 2
    /\ \E k \in 1..Len(lines) :
          /\ IsHeader(lines[k])
          /\ "p" \in {Strip(lines[k])[j] : j \in 1..Len(Strip(lines[k]))}
          /\ Head(Strip(lines[k])) = "::"
    /\ \E k \in 1..Len(lines) :
          IsHeader(lines[k]) /\ Head(Strip(lines[k])) = "P"

\* C12: every Question has at least 2 and at most 4 options, each with a
\* letter of A, B, C, D.
TwoToFourOptions ==
    \A k \in 1..Len(frame.questions) :
        /\ Len(frame.questions[k].options) \in 2..4
        /\ \A o \in 1..Len(frame.questions[k].options) :
              frame.questions[k].options[o][1] \in {"A", "B", "C", "D"}

\* the order of the positions inside one pass of the per-question loop
Rank(pc) ==
    CASE pc = "prompt" -> 7 [] pc = "prompt_end" -> 6 [] pc = "options" -> 5
      [] pc = "options_end" -> 4 [] pc = "correct" -> 3
      [] pc = "correct_end" -> 2 [] pc = "start" -> 2 [] pc = "header" -> 1
      [] OTHER -> 0

\* what every step of parse_questions decreases
Measure(ls, fr) == 8 * (Len(ls) - fr.i) + Rank(fr.pc)

\* the frame at the next test of the per-question loop, or at the end
RECURSIVE RunToLoop(_, _)
RunToLoop(ls, fr) ==
    IF fr.pc \in Final \cup {"header"} THEN fr
    ELSE RunToLoop(ls, Step(ls, fr))

\* C13: the cursor stays within 0..len(lines) and no step decreases it;
\* every step strictly decreases a non-negative measure, so every call
\* ends; an iteration of a phase loop either advances the cursor by one
\* and stays in the loop or leaves the loop; a completed pass of the
\* per-question loop leaves the cursor strictly greater; on return the
\* cursor is len(lines).
ForwardCursor ==
    /\ frame.i \in 0..Len(lines)
    /\ frame.pc \notin Final =>
          LET n == Step(lines, frame)
          IN  /\ n.i >= frame.i
              /\ n.i <= Len(lines)
              /\ Measure(lines, n) < Measure(lines, frame)
              /\ Measure(lines, n) >= 0
              /\ frame.pc \in {"prompt", "options", "correct"} =>
                    \/ n.pc = frame.pc /\ n.i = frame.i + 1
                    \/ n.pc # frame.pc /\ n.i \in {frame.i, frame.i + 1}
    /\ (frame.pc = "header" /\ frame.i < Len(lines)) =>
          LET n == RunToLoop(lines, Step(lines, frame))
          IN  n.pc = "header" => n.i > frame.i
    /\ Returned => frame.i = Len(lines)

\* the second pass of the per-question loop is completed on an input with
\* blank lines
ForwardCursorWitness ==
    /\ frame.pc = "header"
    /\ Len(frame.questions) = 2
    /\ frame.i = Len(lines)
    /\ \E k \in 1..Len(lines) : IsBlank(lines[k])

IsMarker(l) == CORRECT_RE(Strip(l)).ok
EndsOptions(l) == ~IsBlank(l) /\ ~IsOption(l)
StopsAnswerScan(l) == IsHeader(l) \/ IsMarker(l)

\* whether line l is of the kind named by what
LineIs(what, l) ==
    CASE what = "option" -> IsOption(l)
      [] what = "header" -> IsHeader(l)
      [] what = "ends options" -> EndsOptions(l)
      [] what = "stops answer scan" -> StopsAnswerScan(l)

\* the number of the first line of ls from line j on that is of the kind
\* what, Len(ls) + 1 when there is none
RECURSIVE FirstFrom(_, _, _)
FirstFrom(ls, j, what) ==
    IF j > Len(ls) THEN Len(ls) + 1
    ELSE IF LineIs(what, ls[j]) THEN j
    ELSE FirstFrom(ls, j + 1, what)

\* for the block whose header is line h: its first option line, the line
\* that ends its run of option lines, the line that ends its answer scan,
\* and the header of the next block
FirstOptionLine(ls, h) == FirstFrom(ls, h + 1, "option")
OptionsEndLine(ls, h) ==
    FirstFrom(ls, FirstOptionLine(ls, h), "ends options")
AnswerLine(ls, h) ==
    FirstFrom(ls, OptionsEndLine(ls, h), "stops answer scan")
NextHeaderLine(ls, h) == FirstFrom(ls, h + 1, "header")

\* C14: when the answer scan meets a header line or the end of the input
\* it stops there without consuming the line and the missing-answer error
\* follows; the correct_letter of every returned Question is the
\* upper-cased letter of the first marker line at or after the end of its
\* options, and that line lies before the next header.
AnswerScanStopsAtHeader ==
    /\ ( /\ frame.pc = "correct"
         /\ \/ frame.i >= Len(lines)
            \/ IsHeader(lines[frame.i + 1]) )
       => LET n == Step(lines, frame)
          IN  /\ n.pc = "correct_end"
              /\ n.i = frame.i
              /\ Step(lines, n).pc = "error"
              /\ Step(lines, n).err.kind = "no_correct_line"
              /\ Step(lines, n).i = frame.i
    /\ (Raised /\ frame.err.kind = "no_correct_line") =>
          \/ frame.i = Len(lines)
          \/ frame.i < Len(lines) /\ IsHeader(lines[frame.i + 1])
    /\ Returned =>
          \A k \in 1..Len(frame.questions) :
              LET h == HeaderIdx(lines)[k]
                  e == OptionsEndLine(lines, h)
                  s == AnswerLine(lines, h)
              IN  /\ FirstOptionLine(lines, h) < e
                  /\ e <= s
                  /\ s < NextHeaderLine(lines, h)
                  /\ IsMarker(lines[s])
                  /\ frame.questions[k].correct_letter
                         = UpperChar(Strip(lines[s])[Len(Strip(lines[s]))])

\* two blocks are accepted with different answers
AnswerScanWitness ==
    /\ Returned
    /\ Len(frame.questions) = 2
    /\ frame.questions[1].correct_letter # frame.questions[2].correct_letter
    /\ AnswerLine(lines, HeaderIdx(lines)[1])
           > OptionsEndLine(lines, HeaderIdx(lines)[1])

\* the numbers of the non-blank lines that lie between the end of a
\* block's options and its answer marker
SkippedLines(ls) ==
    UNION {LET e == OptionsEndLine(ls, h)
               a == AnswerLine(ls, h)
           IN  IF /\ FirstOptionLine(ls, h) < NextHeaderLine(ls, h)
                  /\ a <= Len(ls)
                  /\ IsMarker(ls[a])
               THEN {j \in e..(a - 1) : ~IsBlank(ls[j])}
               ELSE {} :
           h \in {k \in 1..Len(ls) : IsHeader(ls[k])}}

\* ls without the lines whose numbers are in drop
WithoutLines(ls, drop) ==
    LET keep == SelectSeq([k \in 1..Len(ls) |-> k], LAMBDA k : k \notin drop)
    IN  [k \in 1..Len(keep) |-> ls[keep[k]]]

\* C15: in the answer scan a non-blank line that is neither a header nor a
\* marker only advances the cursor, and the call ends as it does on the
\* input without the lines skipped that way: same Question list (prompts,
\* options and correct letters), or same kind of error.
LenientAnswerSearch ==
    /\ ( /\ frame.pc = "correct"
         /\ frame.i < Len(lines)
         /\ ~IsBlank(lines[frame.i + 1])
         /\ ~IsHeader(lines[frame.i + 1])
         /\ ~IsMarker(lines[frame.i + 1]) )
       => Step(lines, frame) = [frame EXCEPT !.i = frame.i + 1]
    /\ JustEnded =>
          Outcome(frame)
              = Outcome(parse_questions(
                            WithoutLines(lines, SkippedLines(lines))))

\* an accepted input in which a line of option form was skipped
LenientWitness ==
    /\ Returned
    /\ \E j \in SkippedLines(lines) : IsOption(lines[j])
    /\ \E j \in SkippedLines(lines) : ~IsOption(lines[j])

\* the numbers of the non-blank lines of ls before line n
NonBlankBefore(ls, n) == {j \in 1..(n - 1) : ~IsBlank(ls[j])}

Max(S) == CHOOSE x \in S : \A y \in S : y <= x

\* C16: at the test of the per-question loop the line under the cursor is
\* not blank and is the first non-blank line of the input or the first one
\* after the answer marker of the Question just appended; when it is not a
\* header the next step raises the no-question-start error citing its
\* 1-based number and the call returns no Question.
HeaderExpected ==
    /\ (frame.pc = "header" /\ frame.i < Len(lines)) =>
          LET n == frame.i + 1
              before == NonBlankBefore(lines, n)
              next == Step(lines, frame)
          IN  /\ ~IsBlank(lines[n])
              /\ before = {} <=> frame.questions = <<>>
              /\ before # {} =>
                    /\ IsMarker(lines[Max(before)])
                    /\ Max(before)
                           = AnswerLine(lines,
                                 HeaderIdx(lines)[Len(frame.questions)])
              /\ IsHeader(lines[n]) => next.pc = "prompt"
              /\ ~IsHeader(lines[n]) =>
                    /\ next.pc = "error"
                    /\ next.err.kind = "no_question_start"
                    /\ next.err.line = n
                    /\ next.err.text = lines[n]
    /\ (Raised /\ frame.err.kind = "no_question_start") =>
          /\ frame.err.line = frame.i + 1
          /\ ~IsBlank(lines[frame.err.line])
          /\ ~IsHeader(lines[frame.err.line])
          /\ NonBlankBefore(lines, frame.err.line) = {}
                 <=> frame.questions = <<>>
          /\ mainpc = "exit" => output = NotWritten /\ stdout = Nothing

\* a second answer marker follows the first Question's own after a blank
\* line and is rejected
HeaderExpectedWitness ==
    /\ Raised
    /\ frame.err.kind = "no_question_start"
    /\ Len(frame.questions) = 1
    /\ IsMarker(lines[frame.err.line])
    /\ IsBlank(lines[frame.err.line - 1])

\* the stripped non-blank lines of ls numbered from a to b, in order
StrippedBetween(ls, a, b) ==
    LET idx == SelectSeq([k \in 1..Len(ls) |-> k],
                         LAMBDA k : a <= k /\ k <= b /\ ~IsBlank(ls[k]))
    IN  [k \in 1..Len(idx) |-> Strip(ls[idx[k]])]

\* the trailing text of the header line l as a list of 0 or 1 fragments
HeaderText(l) ==
    LET rest == Strip(QUESTION_START_RE(Strip(l)).g4)
    IN  IF rest = <<>> THEN <<>> ELSE <<rest>>

\* C17: every returned prompt is non-empty and is the header's trailing
\* text (if any) followed by every non-blank line between the header and
\* the question's first option line, marker-like lines included, joined by
\* single spaces; the prompt phase ends at an option line or at the end of
\* the input, and with no fragment collected the empty-prompt error is
\* raised.
PromptAssembly ==
    /\ Returned =>
          \A k \in 1..Len(frame.questions) :
              LET h == HeaderIdx(lines)[k]
                  fragments ==
                      HeaderText(lines[h])
                          \o StrippedBetween(lines, h + 1,
                                             FirstOptionLine(lines, h) - 1)
              IN  /\ fragments # <<>>
                  /\ frame.questions[k].prompt # <<>>
                  /\ frame.questions[k].prompt = Join(<<" ">>, fragments)
    /\ frame.pc = "prompt_end" =>
          /\ frame.i = Len(lines) \/ IsOption(lines[frame.i + 1])
          /\ frame.prompt_lines = <<>> =>
                /\ Step(lines, frame).pc = "error"
                /\ Step(lines, frame).err.kind = "empty_prompt"
          /\ frame.prompt_lines # <<>> => Step(lines, frame).pc = "options"
    /\ (Raised /\ frame.err.kind = "empty_prompt") =>
          /\ frame.prompt_lines = <<>>
          /\ frame.i = Len(lines) \/ IsOption(lines[frame.i + 1])

\* a prompt made of the header's text and a marker-like line
PromptWitness ==
    /\ Returned
    /\ \E k \in 1..Len(frame.questions) :
          LET h == HeaderIdx(lines)[k]
          IN  /\ HeaderText(lines[h]) # <<>>
              /\ \E j \in (h + 1)..(FirstOptionLine(lines, h) - 1) :
                    IsMarker(lines[j])

\* the (letter, text) pair of the option line l: its first token in upper
\* case, and what follows the ")" with the whitespace around it removed
OptionPair(l) ==
    <<UpperChar(Head(Strip(l))), Strip(SubSeq(Strip(l), 3, Len(Strip(l))))>>

\* the option pairs of the non-blank lines of ls numbered from a to b
PairsBetween(ls, a, b) ==
    LET idx == SelectSeq([k \in 1..Len(ls) |-> k],
                         LAMBDA k : a <= k /\ k <= b /\ ~IsBlank(ls[k]))
    IN  [k \in 1..Len(idx) |-> OptionPair(ls[idx[k]])]

\* C18: the options of every returned Question are the option lines of
\* the maximal run (blank lines ignored) that starts at the first option
\* line after the prompt, in source order, letters upper-cased; the options
\* phase ends at the first non-blank line that is no option line, or at
\* the end of the input, and leaves the cursor on that line.
OptionsCollection ==
    /\ Returned =>
          \A k \in 1..Len(frame.questions) :
              LET h == HeaderIdx(lines)[k]
              IN  frame.questions[k].options
                      = PairsBetween(lines, FirstOptionLine(lines, h),
                                     OptionsEndLine(lines, h) - 1)
    /\ ( /\ frame.pc = "options"
         /\ \/ frame.i >= Len(lines)
            \/ EndsOptions(lines[frame.i + 1]) )
       => Step(lines, frame) = [frame EXCEPT !.pc = "options_end"]
    /\ ( /\ frame.pc = "options"
         /\ frame.i < Len(lines)
         /\ IsOption(lines[frame.i + 1]) )
       => /\ Step(lines, frame).pc = "options"
          /\ Step(lines, frame).i = frame.i + 1
          /\ Step(lines, frame).options
                 = Append(frame.options, OptionPair(lines[frame.i + 1]))
    /\ frame.pc = "options_end" =>
          \/ frame.i = Len(lines)
          \/ frame.i < Len(lines) /\ EndsOptions(lines[frame.i + 1])

\* a run of options with a lower-case letter and a blank line inside,
\* ended by a line that is neither option nor marker
OptionsWitness ==
    /\ Returned
    /\ \E k \in 1..Len(frame.questions) :
          LET h == HeaderIdx(lines)[k]
              f == FirstOptionLine(lines, h)
              e == OptionsEndLine(lines, h)
          IN  /\ \E j \in f..(e - 1) : IsBlank(lines[j])
              /\ \E j \in f..(e - 1) : At(Strip(lines[j]), 1) = "d"
              /\ e <= Len(lines)
              /\ ~IsMarker(lines[e])

====
